---- MODULE Spec2Model ----
(***************************************************************************)
(* simpleRTOS, TM4C123GH6PM GPIO driver (gpio.cpp / gpio.h) over a         *)
(* simulated register file.                                                *)
(*                                                                         *)
(* A 32-bit register value is the set of its bits that are 1 (a subset of  *)
(* 0..31), so shifts, masks and the width of the word are exact.           *)
(* Addresses are the integers the driver computes.                         *)
(* Every register access of the driver is a separate step: a bit-field set *)
(* is a read of the register followed by a write-back.                     *)
(***************************************************************************)
EXTENDS Integers, Sequences, FiniteSets, TLC

VARIABLES
    regs,      \* the register file: address -> 32-bit content
    obj,       \* the Gpio objects: state, gpio, gpioBaseAddress, gpioPin
    pc,        \* main-line position: "idle" or the source line being executed
    cur,       \* the object the running call belongs to (0: none)
    call,      \* the running call and its arguments
    phase,     \* "read" | "write": position inside a read-modify-write
    tmp,       \* the content latched by the read of a read-modify-write
    polls,     \* ready polls of the running constructor that read 0 (saturating)
    ret,       \* value the running gpioRead is about to return
    log,       \* register accesses and controller calls of the running call
    harness,   \* register test harness: the last primitive call on a scratch word
    nvic       \* interrupt numbers enabled at the interrupt controller

vars == <<regs, obj, pc, cur, call, phase, tmp, polls, ret, log, harness, nvic>>

-----------------------------------------------------------------------------
(* Bounds of the exploration *)

NumObjects == 2
MaxPolls == 2

-----------------------------------------------------------------------------
(* 32-bit words as bit sets *)

WordBits == 32
Word == 0..(WordBits - 1)

RECURSIVE Pow2(_)
Pow2(n) == IF n = 0 THEN 1 ELSE 2 * Pow2(n - 1)

\* the bits of a non-negative integer below 2^31
Bits(n) == {b \in 0..30 : (n \div Pow2(b)) % 2 = 1}

\* value << s, truncated to the word
ShiftLeft(v, s) == {b + s : b \in v} \cap Word

\* value >> s
ShiftRight(v, s) == {b - s : b \in {x \in v : x >= s}}

\* width ones shifted to startBit
Mask(startBit, width) == {b \in Word : startBit <= b /\ b < startBit + width}

-----------------------------------------------------------------------------
(* Enumerations *)

input == 0
output == 1

clear == 0
set == 1

PA0 == 0
PD7 == 31
PF0 == 40
PF4 == 44

GPIO_Port_Pins == 0..47

\* the pins and priorities the exploration constructs objects with
TestPins == {PA0, PF0, PF4}
Directions == {input, output}
Priorities == {3, 8}

RW == "RW"
RO == "RO"
W1C == "W1C"
WO == "WO"

-----------------------------------------------------------------------------
(* Addresses *)

systemControlBase == 1074782208       \* 0x400FE000
RCGCGPIO_OFFSET == 1544               \* 0x608
PRGPIO_OFFSET == 2568                 \* 0xA08

GPIO_Port_AHB_BASE == 1074102272      \* 0x40058000
PortStride == 4096                    \* 0x1000

GPIODATA_OFFSET == 1020               \* 0x3FC
GPIODIR_OFFSET == 1024                \* 0x400
GPIOIS_OFFSET == 1028                 \* 0x404
GPIOIBE_OFFSET == 1032                \* 0x408
GPIOIM_OFFSET == 1040                 \* 0x410
GPIORIS_OFFSET == 1044                \* 0x414
GPIOICR_OFFSET == 1052                \* 0x41C
GPIOAFSEl_OFFSET == 1056              \* 0x420
GPIOPUR_OFFSET == 1296                \* 0x510
GPIODEN_OFFSET == 1308                \* 0x51C
GPIOLOCK_OFFSET == 1312               \* 0x520
GPIOCR_OFFSET == 1316                 \* 0x524
GPIOAMSEL_OFFSET == 1320              \* 0x528

gpioKey == 1280262987                 \* 0x4C4F434B

PortOffsets ==
    {GPIODATA_OFFSET, GPIODIR_OFFSET, GPIOIS_OFFSET, GPIOIBE_OFFSET,
     GPIOIM_OFFSET, GPIORIS_OFFSET, GPIOICR_OFFSET, GPIOAFSEl_OFFSET, GPIOPUR_OFFSET,
     GPIODEN_OFFSET, GPIOLOCK_OFFSET, GPIOCR_OFFSET, GPIOAMSEL_OFFSET}

Ports == 0..5

RCGCGPIO == systemControlBase + RCGCGPIO_OFFSET
PRGPIO == systemControlBase + PRGPIO_OFFSET

\* base address of a port's register block
BaseOf(g) == GPIO_Port_AHB_BASE + (g \div 8) * PortStride

\* the addresses of one port's block
PortBlock(p) == {GPIO_Port_AHB_BASE + p * PortStride + o : o \in PortOffsets}

Addresses == {RCGCGPIO, PRGPIO} \cup UNION {PortBlock(p) : p \in Ports}

-----------------------------------------------------------------------------
(* Register bit-field access primitive (Register::setRegisterBitFieldStatus *)
(* and Register::getRegisterBitFieldStatus), as pure functions of the      *)
(* register content.                                                       *)

\* content written back by a read-modify-write set of a RW / W1C field
SetField(old, value, startBit, width) ==
    (old \ Mask(startBit, width))
        \cup (ShiftLeft(value, startBit) \cap Mask(startBit, width))

\* content written by a set of a WO field: no read
SetFieldWO(value, startBit) == ShiftLeft(value, startBit)

\* value returned by a get
GetField(content, startBit, width) ==
    ShiftRight(content, startBit) \cap Mask(0, width)

-----------------------------------------------------------------------------
(* Access log *)

Ev(op, addr, val) == [op |-> op, addr |-> addr, val |-> val, irq |-> -1, prio |-> -1]
NvicEv(irq, prio) == [op |-> "nvic", addr |-> 0, val |-> {}, irq |-> irq, prio |-> prio]

NoCall == [op |-> "none", obj |-> 0, dir |-> 0, prio |-> 0, value |-> 0]
NoHarness == [op |-> "none", before |-> {}, reg |-> {}, startBit |-> 0, width |-> 0,
              value |-> {}, perm |-> RW, ret |-> {}, fault |-> FALSE]

NoObject == [state |-> "none", gpio |-> PA0, gpioBaseAddress |-> 0, gpioPin |-> 0]

Objects == 1..NumObjects

-----------------------------------------------------------------------------
(* Reset state, from the header: GPIOLOCK resets to 1; the special         *)
(* consideration pins PA[5:0], PB[3:2] and PC[3:0] come out of reset        *)
(* programmed to a non-GPIO function (alternate function selected, digital  *)
(* enabled); PD7 and PF0 come out of reset with their commit bit cleared.   *)
(* Everything else resets to 0.                                             *)

SpecialFunctionPins(p) ==
    IF p = 0 THEN 0..5 ELSE IF p = 1 THEN {2, 3} ELSE IF p = 2 THEN 0..3 ELSE {}

UncommittedPins(p) == IF p = 3 THEN {7} ELSE IF p = 5 THEN {0} ELSE {}

ResetValue(a) ==
    IF a \in {RCGCGPIO, PRGPIO} THEN {}
    ELSE LET o == (a - GPIO_Port_AHB_BASE) % PortStride
             p == (a - GPIO_Port_AHB_BASE) \div PortStride
         IN  IF o = GPIOLOCK_OFFSET THEN {0}
             ELSE IF o \in {GPIOAFSEl_OFFSET, GPIODEN_OFFSET} THEN SpecialFunctionPins(p)
             ELSE IF o = GPIOCR_OFFSET THEN (0..7) \ UncommittedPins(p)
             ELSE {}

Init ==
    /\ regs = [a \in Addresses |-> ResetValue(a)]
    /\ obj = [i \in Objects |-> NoObject]
    /\ pc = "idle"
    /\ cur = 0
    /\ call = NoCall
    /\ phase = "read"
    /\ tmp = {}
    /\ polls = 0
    /\ ret = {}
    /\ log = <<>>
    /\ harness = NoHarness
    /\ nvic = {}

-----------------------------------------------------------------------------
(* Main-line register accesses.  Each operator is one step of the running  *)
(* call: it fixes regs, pc, phase, tmp and log; the action using it fixes  *)
(* the rest.                                                               *)

\* The register file after a write of word v to address a.  GPIOICR is
\* write-1-to-clear (header, line 139): a 1 clears the latched flag of that
\* pin in GPIORIS, nothing is stored and the register reads 0.
Store(a, v) ==
    IF a \in Addresses \ {RCGCGPIO, PRGPIO}
       /\ (a - GPIO_Port_AHB_BASE) % PortStride = GPIOICR_OFFSET
    THEN [regs EXCEPT ![a - GPIOICR_OFFSET + GPIORIS_OFFSET] = @ \ v]
    ELSE [regs EXCEPT ![a] = v]

\* the driver runs only while the register test harness has not been used
DriverMayRun == harness.op = "none"

\* Register::setRegisterBitFieldStatus(address, value, startBit, width, perm),
\* then continue at next
setRegisterBitFieldStatus(address, value, startBit, width, perm, next) ==
    IF perm = RO
    THEN /\ pc' = "fault"
         /\ UNCHANGED <<regs, phase, tmp, log>>
    ELSE IF perm = WO
    THEN /\ regs' = Store(address, SetFieldWO(value, startBit))
         /\ log' = Append(log, Ev("write", address, SetFieldWO(value, startBit)))
         /\ pc' = next
         /\ UNCHANGED <<phase, tmp>>
    ELSE IF phase = "read"
    THEN /\ tmp' = regs[address]
         /\ phase' = "write"
         /\ log' = Append(log, Ev("read", address, regs[address]))
         /\ UNCHANGED <<regs, pc>>
    ELSE /\ regs' = Store(address, SetField(tmp, value, startBit, width))
         /\ log' = Append(log, Ev("write", address, SetField(tmp, value, startBit, width)))
         /\ phase' = "read"
         /\ tmp' = {}
         /\ pc' = next

\* *address |= mask, then continue at next
orRegister(address, mask, next) ==
    IF phase = "read"
    THEN /\ tmp' = regs[address]
         /\ phase' = "write"
         /\ log' = Append(log, Ev("read", address, regs[address]))
         /\ UNCHANGED <<regs, pc>>
    ELSE /\ regs' = Store(address, tmp \cup mask)
         /\ log' = Append(log, Ev("write", address, tmp \cup mask))
         /\ phase' = "read"
         /\ tmp' = {}
         /\ pc' = next

me == obj[cur]

Running(label) == DriverMayRun /\ pc = label

-----------------------------------------------------------------------------
(* Statement order: the line executed after the statement at line l of the *)
(* running call completes.                                                 *)

\* Successor with the analog-mode write (line 72) of an interrupt
\* construction moved behind the controller call (line 99)
Successor_AnalogLast(l) ==
    CASE l = "L50" -> "L51"
      [] l = "L51" -> IF obj[cur].gpio = PF0 THEN "L59" ELSE "L63"
      [] l = "L59" -> "L60"
      [] l = "L60" -> "L63"
      [] l = "L63" -> IF call.dir = input THEN "L67" ELSE "L70"
      [] l = "L67" -> "L70"
      [] l = "L70" -> "L71"
      [] l = "L71" -> IF call.op = "Gpio3" THEN "L87" ELSE "L72"
      [] l = "L72" -> "L74"
      [] l = "L74" -> "L101"
      [] l = "L87" -> "L88"
      [] l = "L88" -> "L89"
      [] l = "L89" -> "L90"
      [] l = "L90" -> "L91"
      [] l = "L91" -> "L99"
      [] l = "L99" -> "L72"
      [] l = "L116" -> "L117"
      [] l = "L125" -> IF call.value = 0 \/ call.value = 1 THEN "L127" ELSE "L129"
      [] l = "L127" -> "L129"
      [] l = "L137" -> "L138"

\* Successor with the digital enable (line 71) moved before the
\* alternate-function write (line 70)
Successor_DenFirst(l) ==
    CASE l = "L50" -> "L51"
      [] l = "L51" -> IF obj[cur].gpio = PF0 THEN "L59" ELSE "L63"
      [] l = "L59" -> "L60"
      [] l = "L60" -> "L63"
      [] l = "L63" -> IF call.dir = input THEN "L67" ELSE "L71"
      [] l = "L67" -> "L71"
      [] l = "L71" -> "L70"
      [] l = "L70" -> "L72"
      [] l = "L72" -> "L74"
      [] l = "L74" -> "L87"
      [] l = "L87" -> "L88"
      [] l = "L88" -> "L89"
      [] l = "L89" -> "L90"
      [] l = "L90" -> "L91"
      [] l = "L91" -> "L99"
      [] l = "L99" -> "L101"
      [] l = "L116" -> "L117"
      [] l = "L125" -> IF call.value = 0 \/ call.value = 1 THEN "L127" ELSE "L129"
      [] l = "L127" -> "L129"
      [] l = "L137" -> "L138"

\* Successor with the unlock taken for both pins whose commit bit resets to 0
Successor_UnlockUncommitted(l) ==
    CASE l = "L50" -> "L51"
      [] l = "L51" -> IF obj[cur].gpio \in {PD7, PF0} THEN "L59" ELSE "L63"
      [] l = "L59" -> "L60"
      [] l = "L60" -> "L63"
      [] l = "L63" -> IF call.dir = input THEN "L67" ELSE "L70"
      [] l = "L67" -> "L70"
      [] l = "L70" -> "L71"
      [] l = "L71" -> "L72"
      [] l = "L72" -> "L74"
      [] l = "L74" -> "L87"
      [] l = "L87" -> "L88"
      [] l = "L88" -> "L89"
      [] l = "L89" -> "L90"
      [] l = "L90" -> "L91"
      [] l = "L91" -> "L99"
      [] l = "L99" -> "L101"
      [] l = "L116" -> "L117"
      [] l = "L125" -> IF call.value = 0 \/ call.value = 1 THEN "L127" ELSE "L129"
      [] l = "L127" -> "L129"
      [] l = "L137" -> "L138"

\* Successor with the pull-up write (line 67) taken for either direction
Successor_PullUpAlways(l) ==
    CASE l = "L50" -> "L51"
      [] l = "L51" -> IF obj[cur].gpio = PF0 THEN "L59" ELSE "L63"
      [] l = "L59" -> "L60"
      [] l = "L60" -> "L63"
      [] l = "L63" -> "L67"
      [] l = "L67" -> "L70"
      [] l = "L70" -> "L71"
      [] l = "L71" -> "L72"
      [] l = "L72" -> "L74"
      [] l = "L74" -> "L87"
      [] l = "L87" -> "L88"
      [] l = "L88" -> "L89"
      [] l = "L89" -> "L90"
      [] l = "L90" -> "L91"
      [] l = "L91" -> "L99"
      [] l = "L99" -> "L101"
      [] l = "L116" -> "L117"
      [] l = "L125" -> IF call.value = 0 \/ call.value = 1 THEN "L127" ELSE "L129"
      [] l = "L127" -> "L129"
      [] l = "L137" -> "L138"

Successor(l) ==
    CASE l = "L50" -> "L51"
      [] l = "L51" -> IF me.gpio = PF0 THEN "L59" ELSE "L63"
      [] l = "L59" -> "L60"
      [] l = "L60" -> "L63"
      [] l = "L63" -> IF call.dir = input THEN "L67" ELSE "L70"
      [] l = "L67" -> "L70"
      [] l = "L70" -> "L71"
      [] l = "L71" -> "L72"
      [] l = "L72" -> "L74"
      [] l = "L74" -> "L87"
      [] l = "L87" -> "L88"
      [] l = "L88" -> "L89"
      [] l = "L89" -> "L90"
      [] l = "L90" -> "L91"
      [] l = "L91" -> "L99"
      [] l = "L99" -> "L101"
      [] l = "L116" -> "L117"
      [] l = "L125" -> IF call.value = 0 \/ call.value = 1 THEN "L127" ELSE "L129"
      [] l = "L127" -> "L129"
      [] l = "L137" -> "L138"

-----------------------------------------------------------------------------
(* Gpio::Gpio(GPIO_Port_Pins gpio, direction dir) *)

\* Constructing with the pin number, not the port number, selecting the block
Constructing_PinStride(g) ==
    [state |-> "constructing", gpio |-> g,
     gpioBaseAddress |-> GPIO_Port_AHB_BASE + (g % 8) * PortStride,
     gpioPin |-> g % 8]

\* fields set on entry
Constructing(g) ==
    [state |-> "constructing", gpio |-> g,
     gpioBaseAddress |-> GPIO_Port_AHB_BASE + (g \div 8) * PortStride,
     gpioPin |-> g % 8]

\* objects are constructed in the order of their index
MayConstruct(i) ==
    /\ obj[i].state = "none"
    /\ \A j \in Objects : j < i => obj[j].state # "none"

Enter(i, c) ==
    /\ cur' = i
    /\ call' = c

\* the running call returns to the main line
Return ==
    /\ pc' = "idle"
    /\ cur' = 0
    /\ call' = NoCall
    /\ log' = <<>>
    /\ ret' = {}

\* an object whose constructor has returned
Usable(i) == obj[i].state \in {"constructed", "default"}

\* values the members a constructor did not assign may hold
IndeterminateBases == {BaseOf(PA0), BaseOf(PF0)}
IndeterminatePins == {0, 4}

\* Gpio::Gpio() on object i (lines 34-37): the body is empty, gpio keeps its
\* initializer PA0, gpioBaseAddress and gpioPin are left unassigned
Gpio0(i, base, b) ==
    /\ DriverMayRun
    /\ pc = "idle"
    /\ MayConstruct(i)
    /\ obj' = [obj EXCEPT ![i] = [state |-> "default", gpio |-> PA0,
                                  gpioBaseAddress |-> base, gpioPin |-> b]]
    /\ UNCHANGED <<regs, pc, cur, call, phase, tmp, polls, ret, log, harness, nvic>>

\* call of the two-argument constructor on object i
Gpio2(i, g, dir) ==
    /\ DriverMayRun
    /\ pc = "idle"
    /\ MayConstruct(i)
    /\ obj' = [obj EXCEPT ![i] = Constructing(g)]
    /\ Enter(i, [op |-> "Gpio2", obj |-> i, dir |-> dir, prio |-> 0, value |-> 0])
    /\ pc' = "L50"
    /\ UNCHANGED <<regs, phase, tmp, polls, ret, log, harness, nvic>>

\* L50 with the pin number in place of the port number
L50_PinBit ==
    /\ Running("L50")
    /\ setRegisterBitFieldStatus(RCGCGPIO, Bits(set), me.gpio % 8, 1, RW, Successor("L50"))
    /\ UNCHANGED <<obj, cur, call, polls, ret, harness, nvic>>

\* L50 passing the access class of a read-only register
L50_ReadOnlyClass ==
    /\ Running("L50")
    /\ setRegisterBitFieldStatus(RCGCGPIO, Bits(set), me.gpio \div 8, 1, RO, Successor("L50"))
    /\ UNCHANGED <<obj, cur, call, polls, ret, harness, nvic>>

\* line 50: set the run-mode clock-gate bit of the port
L50 ==
    /\ Running("L50")
    /\ setRegisterBitFieldStatus(RCGCGPIO, Bits(set), me.gpio \div 8, 1, RW, Successor("L50"))
    /\ UNCHANGED <<obj, cur, call, polls, ret, harness, nvic>>

\* L51 with the loop given up after MaxPolls reads of 0
L51_Timeout ==
    /\ Running("L51")
    /\ LET r == GetField(regs[PRGPIO], me.gpio \div 8, 1)
       IN  IF r = Bits(0) /\ polls < MaxPolls
           THEN /\ pc' = "L51"
                /\ polls' = polls + 1
                /\ log' = log
           ELSE /\ pc' = Successor("L51")
                /\ polls' = 0
                /\ log' = Append(log, Ev("read", PRGPIO, regs[PRGPIO]))
    /\ UNCHANGED <<regs, obj, cur, call, phase, tmp, ret, harness, nvic>>

\* L51 with the loop left after one read whatever it returned
L51_NoWait ==
    /\ Running("L51")
    /\ pc' = Successor("L51")
    /\ polls' = 0
    /\ log' = Append(log, Ev("read", PRGPIO, regs[PRGPIO]))
    /\ UNCHANGED <<regs, obj, cur, call, phase, tmp, ret, harness, nvic>>

\* line 51: one iteration of the ready poll
L51 ==
    /\ Running("L51")
    /\ LET r == GetField(regs[PRGPIO], me.gpio \div 8, 1)
       IN  IF r = Bits(0)
           THEN /\ pc' = "L51"
                /\ polls' = IF polls < MaxPolls THEN polls + 1 ELSE polls
                /\ log' = log
           ELSE /\ pc' = Successor("L51")
                /\ polls' = 0
                /\ log' = Append(log, Ev("read", PRGPIO, regs[PRGPIO]))
    /\ UNCHANGED <<regs, obj, cur, call, phase, tmp, ret, harness, nvic>>

\* L59 with a field of the low 16 bits
L59_LowHalf ==
    /\ Running("L59")
    /\ setRegisterBitFieldStatus(me.gpioBaseAddress + GPIOLOCK_OFFSET,
                                 Bits(gpioKey), 0, 16, RW, Successor("L59"))
    /\ UNCHANGED <<obj, cur, call, polls, ret, harness, nvic>>

\* line 59: write the key to GPIOLOCK
L59 ==
    /\ Running("L59")
    /\ setRegisterBitFieldStatus(me.gpioBaseAddress + GPIOLOCK_OFFSET,
                                 Bits(gpioKey), 0, 32, RW, Successor("L59"))
    /\ UNCHANGED <<obj, cur, call, polls, ret, harness, nvic>>

\* line 60: set the commit bit of the pin
L60 ==
    /\ Running("L60")
    /\ orRegister(me.gpioBaseAddress + GPIOCR_OFFSET, ShiftLeft(Bits(1), me.gpioPin), Successor("L60"))
    /\ UNCHANGED <<obj, cur, call, polls, ret, harness, nvic>>

\* L63 writing the direction of all eight pins of the port
L63_WholePort ==
    /\ Running("L63")
    /\ setRegisterBitFieldStatus(me.gpioBaseAddress + GPIODIR_OFFSET,
                                 ShiftLeft(Bits(call.dir), me.gpioPin), 0, 8, RW,
                                 Successor("L63"))
    /\ UNCHANGED <<obj, cur, call, polls, ret, harness, nvic>>

\* line 63: direction
L63 ==
    /\ Running("L63")
    /\ setRegisterBitFieldStatus(me.gpioBaseAddress + GPIODIR_OFFSET,
                                 Bits(call.dir), me.gpioPin, 1, RW, Successor("L63"))
    /\ UNCHANGED <<obj, cur, call, polls, ret, harness, nvic>>

\* line 67: pull-up, inputs only
L67 ==
    /\ Running("L67")
    /\ setRegisterBitFieldStatus(me.gpioBaseAddress + GPIOPUR_OFFSET,
                                 Bits(set), me.gpioPin, 1, RW, Successor("L67"))
    /\ UNCHANGED <<obj, cur, call, polls, ret, harness, nvic>>

\* line 70: alternate function off
L70 ==
    /\ Running("L70")
    /\ setRegisterBitFieldStatus(me.gpioBaseAddress + GPIOAFSEl_OFFSET,
                                 Bits(clear), me.gpioPin, 1, RW, Successor("L70"))
    /\ UNCHANGED <<obj, cur, call, polls, ret, harness, nvic>>

\* L71 clearing the bit
L71_ClearEnable ==
    /\ Running("L71")
    /\ setRegisterBitFieldStatus(me.gpioBaseAddress + GPIODEN_OFFSET,
                                 Bits(clear), me.gpioPin, 1, RW, Successor("L71"))
    /\ UNCHANGED <<obj, cur, call, polls, ret, harness, nvic>>

\* line 71: digital enable
L71 ==
    /\ Running("L71")
    /\ setRegisterBitFieldStatus(me.gpioBaseAddress + GPIODEN_OFFSET,
                                 Bits(set), me.gpioPin, 1, RW, Successor("L71"))
    /\ UNCHANGED <<obj, cur, call, polls, ret, harness, nvic>>

\* line 72: analog mode off
L72 ==
    /\ Running("L72")
    /\ setRegisterBitFieldStatus(me.gpioBaseAddress + GPIOAMSEL_OFFSET,
                                 Bits(clear), me.gpioPin, 1, RW, Successor("L72"))
    /\ UNCHANGED <<obj, cur, call, polls, ret, harness, nvic>>

\* line 74: the two-argument constructor returns, to its caller when it was
\* delegated to by the three-argument constructor (line 83)
L74 ==
    /\ Running("L74")
    /\ IF call.op = "Gpio3"
       THEN /\ pc' = Successor("L74")
            /\ UNCHANGED obj
            /\ UNCHANGED <<cur, call, ret, log>>
       ELSE /\ Return
            /\ obj' = [obj EXCEPT ![cur].state = "constructed"]
    /\ UNCHANGED <<regs, phase, tmp, polls, harness, nvic>>

-----------------------------------------------------------------------------
(* Gpio::Gpio(GPIO_Port_Pins gpio, direction dir, uint32_t interruptPriority) *)

\* call of the three-argument constructor on object i: it delegates to the
\* two-argument constructor first
Gpio3(i, g, dir, interruptPriority) ==
    /\ DriverMayRun
    /\ pc = "idle"
    /\ MayConstruct(i)
    /\ obj' = [obj EXCEPT ![i] = Constructing(g)]
    /\ Enter(i, [op |-> "Gpio3", obj |-> i, dir |-> dir,
                 prio |-> interruptPriority, value |-> 0])
    /\ pc' = "L50"
    /\ UNCHANGED <<regs, phase, tmp, polls, ret, log, harness, nvic>>

\* L87 setting the mask bit
L87_SetMask ==
    /\ Running("L87")
    /\ setRegisterBitFieldStatus(me.gpioBaseAddress + GPIOIM_OFFSET,
                                 Bits(set), me.gpioPin, 1, RW, Successor("L87"))
    /\ UNCHANGED <<obj, cur, call, polls, ret, harness, nvic>>

\* line 87: mask the pin's interrupt
L87 ==
    /\ Running("L87")
    /\ setRegisterBitFieldStatus(me.gpioBaseAddress + GPIOIM_OFFSET,
                                 Bits(clear), me.gpioPin, 1, RW, Successor("L87"))
    /\ UNCHANGED <<obj, cur, call, polls, ret, harness, nvic>>

\* line 88: edge sensitive
L88 ==
    /\ Running("L88")
    /\ setRegisterBitFieldStatus(me.gpioBaseAddress + GPIOIS_OFFSET,
                                 Bits(clear), me.gpioPin, 1, RW, Successor("L88"))
    /\ UNCHANGED <<obj, cur, call, polls, ret, harness, nvic>>

\* line 89: both edges
L89 ==
    /\ Running("L89")
    /\ setRegisterBitFieldStatus(me.gpioBaseAddress + GPIOIBE_OFFSET,
                                 Bits(set), me.gpioPin, 1, RW, Successor("L89"))
    /\ UNCHANGED <<obj, cur, call, polls, ret, harness, nvic>>

\* line 90: clear the pending flag
L90 ==
    /\ Running("L90")
    /\ setRegisterBitFieldStatus(me.gpioBaseAddress + GPIOICR_OFFSET,
                                 Bits(set), me.gpioPin, 1, RW, Successor("L90"))
    /\ UNCHANGED <<obj, cur, call, polls, ret, harness, nvic>>

\* line 91: unmask the pin's interrupt
L91 ==
    /\ Running("L91")
    /\ setRegisterBitFieldStatus(me.gpioBaseAddress + GPIOIM_OFFSET,
                                 Bits(set), me.gpioPin, 1, RW, Successor("L91"))
    /\ UNCHANGED <<obj, cur, call, polls, ret, harness, nvic>>

\* InterruptNumber without the case of Port F
InterruptNumber_PortIndex(g) == g \div 8

\* the interrupt number passed to the controller (line 99)
InterruptNumber(g) == IF g \div 8 = 5 THEN 30 ELSE g \div 8

\* line 99: Nvic::activateInterrupt(number, interruptPriority)
L99 ==
    /\ Running("L99")
    /\ log' = Append(log, NvicEv(InterruptNumber(me.gpio), call.prio))
    /\ nvic' = nvic \cup {InterruptNumber(me.gpio)}
    /\ pc' = Successor("L99")
    /\ UNCHANGED <<regs, obj, cur, call, phase, tmp, polls, ret, harness>>

\* line 101: the three-argument constructor returns
L101 ==
    /\ Running("L101")
    /\ Return
    /\ obj' = [obj EXCEPT ![cur].state = "constructed"]
    /\ UNCHANGED <<regs, phase, tmp, polls, harness, nvic>>

-----------------------------------------------------------------------------
(* Operations on a constructed object *)

\* values a caller can pass as setORClear: clear, set, and one out of range
WriteValues == {clear, set, 2}

\* call of Gpio::gpioWrite(value) on object i
gpioWrite(i, value) ==
    /\ DriverMayRun
    /\ pc = "idle"
    /\ Usable(i)
    /\ Enter(i, [op |-> "gpioWrite", obj |-> i, dir |-> 0, prio |-> 0, value |-> value])
    /\ pc' = "L125"
    /\ UNCHANGED <<regs, obj, phase, tmp, polls, ret, log, harness, nvic>>

\* L125 without the test of the value
L125_NoCheck ==
    /\ Running("L125")
    /\ pc' = "L127"
    /\ UNCHANGED <<regs, obj, cur, call, phase, tmp, polls, ret, log, harness, nvic>>

\* line 125: only 0 and 1 are written
L125 ==
    /\ Running("L125")
    /\ pc' = Successor("L125")
    /\ UNCHANGED <<regs, obj, cur, call, phase, tmp, polls, ret, log, harness, nvic>>

\* L127 inverting the pin's bit when value is 1
L127_Toggle ==
    /\ Running("L127")
    /\ setRegisterBitFieldStatus(me.gpioBaseAddress + GPIODATA_OFFSET,
                                 IF call.value = 1 /\ me.gpioPin \in tmp
                                 THEN Bits(clear) ELSE Bits(call.value),
                                 me.gpioPin, 1, RW, Successor("L127"))
    /\ UNCHANGED <<obj, cur, call, polls, ret, harness, nvic>>

\* L127 reading the register again at the write-back
L127_Reread ==
    /\ Running("L127")
    /\ IF phase = "read"
       THEN /\ tmp' = regs[me.gpioBaseAddress + GPIODATA_OFFSET]
            /\ phase' = "write"
            /\ log' = Append(log, Ev("read", me.gpioBaseAddress + GPIODATA_OFFSET,
                                     regs[me.gpioBaseAddress + GPIODATA_OFFSET]))
            /\ UNCHANGED <<regs, pc>>
       ELSE /\ regs' = Store(me.gpioBaseAddress + GPIODATA_OFFSET,
                             SetField(regs[me.gpioBaseAddress + GPIODATA_OFFSET],
                                      Bits(call.value), me.gpioPin, 1))
            /\ log' = Append(log, Ev("write", me.gpioBaseAddress + GPIODATA_OFFSET,
                                     SetField(regs[me.gpioBaseAddress + GPIODATA_OFFSET],
                                              Bits(call.value), me.gpioPin, 1)))
            /\ phase' = "read"
            /\ tmp' = {}
            /\ pc' = Successor("L127")
    /\ UNCHANGED <<obj, cur, call, polls, ret, harness, nvic>>

\* L127 storing value << gpioPin without the read-modify-write
L127_RawStore ==
    /\ Running("L127")
    /\ IF phase = "read"
       THEN /\ tmp' = regs[me.gpioBaseAddress + GPIODATA_OFFSET]
            /\ phase' = "write"
            /\ log' = Append(log, Ev("read", me.gpioBaseAddress + GPIODATA_OFFSET,
                                     regs[me.gpioBaseAddress + GPIODATA_OFFSET]))
            /\ UNCHANGED <<regs, pc>>
       ELSE /\ regs' = Store(me.gpioBaseAddress + GPIODATA_OFFSET,
                             ShiftLeft(Bits(call.value), me.gpioPin))
            /\ log' = Append(log, Ev("write", me.gpioBaseAddress + GPIODATA_OFFSET,
                                     ShiftLeft(Bits(call.value), me.gpioPin)))
            /\ phase' = "read"
            /\ tmp' = {}
            /\ pc' = Successor("L127")
    /\ UNCHANGED <<obj, cur, call, polls, ret, harness, nvic>>

\* line 127: the bit-field set on GPIODATA
L127 ==
    /\ Running("L127")
    /\ setRegisterBitFieldStatus(me.gpioBaseAddress + GPIODATA_OFFSET,
                                 Bits(call.value), me.gpioPin, 1, RW, Successor("L127"))
    /\ UNCHANGED <<obj, cur, call, polls, ret, harness, nvic>>

\* line 129: gpioWrite returns
L129 ==
    /\ Running("L129")
    /\ Return
    /\ UNCHANGED <<regs, obj, phase, tmp, polls, harness, nvic>>

\* call of Gpio::gpioRead() on object i
gpioRead(i) ==
    /\ DriverMayRun
    /\ pc = "idle"
    /\ Usable(i)
    /\ Enter(i, [op |-> "gpioRead", obj |-> i, dir |-> 0, prio |-> 0, value |-> 0])
    /\ pc' = "L137"
    /\ UNCHANGED <<regs, obj, phase, tmp, polls, ret, log, harness, nvic>>

\* gpioReadValue reading bit 0 whatever the pin
gpioReadValue_Bit0(o) ==
    GetField(regs[o.gpioBaseAddress + GPIODATA_OFFSET], 0, 1)

\* the value gpioRead computes for object o from the register file
gpioReadValue(o) ==
    GetField(regs[o.gpioBaseAddress + GPIODATA_OFFSET], o.gpioPin, 1)

\* line 137: the bit-field get on GPIODATA
L137 ==
    /\ Running("L137")
    /\ ret' = gpioReadValue(me)
    /\ log' = Append(log, Ev("read", me.gpioBaseAddress + GPIODATA_OFFSET,
                             regs[me.gpioBaseAddress + GPIODATA_OFFSET]))
    /\ pc' = Successor("L137")
    /\ UNCHANGED <<regs, obj, cur, call, phase, tmp, polls, harness, nvic>>

\* line 138: gpioRead returns ret
L138 ==
    /\ Running("L138")
    /\ Return
    /\ UNCHANGED <<regs, obj, phase, tmp, polls, harness, nvic>>

\* call of Gpio::interruptClear() on object i
interruptClear(i) ==
    /\ DriverMayRun
    /\ pc = "idle"
    /\ Usable(i)
    /\ Enter(i, [op |-> "interruptClear", obj |-> i, dir |-> 0, prio |-> 0, value |-> 0])
    /\ pc' = "L116"
    /\ UNCHANGED <<regs, obj, phase, tmp, polls, ret, log, harness, nvic>>

\* L116 writing 1 to the flags of all eight pins
L116_ClearAll ==
    /\ Running("L116")
    /\ setRegisterBitFieldStatus(me.gpioBaseAddress + GPIOICR_OFFSET,
                                 Mask(0, 8), 0, 8, RW, Successor("L116"))
    /\ UNCHANGED <<obj, cur, call, polls, ret, harness, nvic>>

\* line 116: the bit-field set on GPIOICR
L116 ==
    /\ Running("L116")
    /\ setRegisterBitFieldStatus(me.gpioBaseAddress + GPIOICR_OFFSET,
                                 Bits(set), me.gpioPin, 1, RW, Successor("L116"))
    /\ UNCHANGED <<obj, cur, call, polls, ret, harness, nvic>>

\* line 117: interruptClear returns
L117 ==
    /\ Running("L117")
    /\ Return
    /\ UNCHANGED <<regs, obj, phase, tmp, polls, harness, nvic>>

-----------------------------------------------------------------------------
(* Hardware: a clocked port becomes ready *)

HwReady(p) ==
    /\ p \in regs[RCGCGPIO]
    /\ p \notin regs[PRGPIO]
    /\ regs' = [regs EXCEPT ![PRGPIO] = @ \cup {p}]
    /\ UNCHANGED <<obj, pc, cur, call, phase, tmp, polls, ret, log, harness, nvic>>

\* An edge on pin b of port p latches the pin's raw interrupt flag (GPIORIS,
\* header line 137), whatever the mask: the port is clocked and ready and the
\* pin is a digital GPIO input.
HwEdge(p, b) ==
    /\ p \in regs[PRGPIO]
    /\ b \in regs[GPIO_Port_AHB_BASE + p * PortStride + GPIODEN_OFFSET]
    /\ b \notin regs[GPIO_Port_AHB_BASE + p * PortStride + GPIODIR_OFFSET]
    /\ b \notin regs[GPIO_Port_AHB_BASE + p * PortStride + GPIOAFSEl_OFFSET]
    /\ b \notin regs[GPIO_Port_AHB_BASE + p * PortStride + GPIORIS_OFFSET]
    /\ regs' = [regs EXCEPT ![GPIO_Port_AHB_BASE + p * PortStride + GPIORIS_OFFSET] = @ \cup {b}]
    /\ UNCHANGED <<obj, pc, cur, call, phase, tmp, polls, ret, log, harness, nvic>>

-----------------------------------------------------------------------------
(* Interrupt context.  Once the controller call of an interrupt construction *)
(* has been made, the latched and unmasked flag of a pin preempts the main   *)
(* line between any two of its register accesses.  The handler runs to       *)
(* completion: it calls gpioWrite(v) on object j and interruptClear on the   *)
(* object i whose pin raised the interrupt.                                  *)

\* the interrupt of object i's pin is latched, unmasked and enabled
Pending(i) ==
    /\ obj[i].state = "constructed"
    /\ InterruptNumber(obj[i].gpio) \in nvic
    /\ obj[i].gpioPin \in regs[obj[i].gpioBaseAddress + GPIORIS_OFFSET]
    /\ obj[i].gpioPin \in regs[obj[i].gpioBaseAddress + GPIOIM_OFFSET]

\* the main line has read register d and not yet written it back
MidReadModifyWrite(d) ==
    /\ phase = "write"
    /\ Len(log) > 0
    /\ log[Len(log)].addr = d
    /\ log[Len(log)].op \in {"read", "isr"}

\* The log keeps the content the latest handler write left in a register
\* the main line is in the middle of updating.
Handler(i, j, v) ==
    /\ DriverMayRun
    /\ Pending(i)
    /\ Usable(j)
    /\ LET d == obj[j].gpioBaseAddress + GPIODATA_OFFSET
           written == SetField(regs[d], Bits(v), obj[j].gpioPin, 1)
           icr == obj[i].gpioBaseAddress + GPIOICR_OFFSET
           ris == obj[i].gpioBaseAddress + GPIORIS_OFFSET
       IN  /\ regs' = [regs EXCEPT
                          ![d] = written,
                          ![ris] = @ \ SetField(regs[icr], Bits(set), obj[i].gpioPin, 1)]
           /\ log' = IF ~MidReadModifyWrite(d) THEN log
                     ELSE IF log[Len(log)].op = "isr"
                     THEN [log EXCEPT ![Len(log)] = Ev("isr", d, written)]
                     ELSE Append(log, Ev("isr", d, written))
    /\ UNCHANGED <<obj, pc, cur, call, phase, tmp, polls, ret, harness, nvic>>

-----------------------------------------------------------------------------
(* Register test harness: one call of the primitive on a scratch word that *)
(* holds any of the SampleWords, before any driver object exists.          *)

SampleWords == {{}, Word, {b \in Word : b % 2 = 0}, Bits(gpioKey)}

Fields == {f \in Word \X (1..WordBits) : f[1] + f[2] <= WordBits}

\* values passed for a field of the given width: the last two do not fit
\* unless the field is the whole word
FieldValues(width) ==
    {{}, {0}, Mask(0, width), Word, Bits(gpioKey)}

HarnessMayRun ==
    /\ harness.op = "none"
    /\ pc = "idle"
    /\ \A i \in Objects : obj[i].state = "none"

HarnessSet(w, value, startBit, width, perm) ==
    /\ harness' = [op |-> "set", before |-> w, startBit |-> startBit, width |-> width,
                   value |-> value, perm |-> perm, ret |-> {},
                   reg |-> IF perm = RO THEN w
                           ELSE IF perm = WO THEN SetFieldWO(value, startBit)
                           ELSE SetField(w, value, startBit, width),
                   fault |-> (perm = RO)]
    /\ UNCHANGED <<regs, obj, pc, cur, call, phase, tmp, polls, ret, log, nvic>>

\* HarnessGet answering 0 for a write-only field
HarnessGet_ReturnZero(w, startBit, width, perm) ==
    /\ harness' = [op |-> "get", before |-> w, startBit |-> startBit, width |-> width,
                   value |-> {}, perm |-> perm, reg |-> w,
                   ret |-> IF perm = WO THEN {} ELSE GetField(w, startBit, width),
                   fault |-> FALSE]
    /\ UNCHANGED <<regs, obj, pc, cur, call, phase, tmp, polls, ret, log, nvic>>

HarnessGet(w, startBit, width, perm) ==
    /\ harness' = [op |-> "get", before |-> w, startBit |-> startBit, width |-> width,
                   value |-> {}, perm |-> perm, reg |-> w,
                   ret |-> IF perm = WO THEN {} ELSE GetField(w, startBit, width),
                   fault |-> (perm = WO)]
    /\ UNCHANGED <<regs, obj, pc, cur, call, phase, tmp, polls, ret, log, nvic>>

RegisterSetTest ==
    /\ HarnessMayRun
    /\ \E w \in SampleWords, f \in Fields, perm \in {RW, W1C, WO, RO} :
           \E v \in FieldValues(f[2]) : HarnessSet(w, v, f[1], f[2], perm)

RegisterGetTest ==
    /\ HarnessMayRun
    /\ \E w \in SampleWords, f \in Fields, perm \in {RW, RO, WO} :
           HarnessGet(w, f[1], f[2], perm)

-----------------------------------------------------------------------------

Next ==
    \/ \E i \in Objects, g \in TestPins, d \in Directions : Gpio2(i, g, d)
    \/ \E i \in Objects, g \in TestPins, d \in Directions, p \in Priorities :
           Gpio3(i, g, d, p)
    \/ L50 \/ L51 \/ L59 \/ L60 \/ L63 \/ L67 \/ L70 \/ L71 \/ L72 \/ L74
    \/ L87 \/ L88 \/ L89 \/ L90 \/ L91 \/ L99 \/ L101
    \/ \E i \in Objects, v \in WriteValues : gpioWrite(i, v)
    \/ L125 \/ L127 \/ L129
    \/ \E i \in Objects : gpioRead(i)
    \/ L137 \/ L138
    \/ \E i \in Objects : interruptClear(i)
    \/ L116 \/ L117
    \/ \E p \in Ports : HwReady(p)
    \/ RegisterSetTest
    \/ RegisterGetTest

Spec == Init /\ [][Next]_vars

\* the statements of the running call: the processor executes them
Progress ==
    \/ L50 \/ L51 \/ L59 \/ L60 \/ L63 \/ L67 \/ L70 \/ L71 \/ L72 \/ L74
    \/ L87 \/ L88 \/ L89 \/ L90 \/ L91 \/ L99 \/ L101
    \/ L116 \/ L117 \/ L125 \/ L127 \/ L129 \/ L137 \/ L138

Hardware == \E p \in Ports : HwReady(p)

\* the processor keeps executing, and a clocked port becomes ready
FairSpec == Spec /\ WF_vars(Progress) /\ WF_vars(Hardware)

\* the driver with objects made by the default constructor as well
DefaultNext ==
    \/ Next
    \/ \E i \in Objects, base \in IndeterminateBases, b \in IndeterminatePins :
           Gpio0(i, base, b)

DefaultSpec == Init /\ [][DefaultNext]_vars

\* the driver on hardware whose pins see edges, with an interrupt handler
IrqNext ==
    \/ Next
    \/ \E p \in Ports, b \in 0..7 : HwEdge(p, b)
    \/ \E i \in Objects, j \in Objects, v \in {clear, set} : Handler(i, j, v)

IrqSpec == Init /\ [][IrqNext]_vars

\* the driver constructing objects on PD7, the other pin whose commit bit
\* resets to 0, as well
SpecialPinsNext ==
    \/ Next
    \/ \E i \in Objects, d \in Directions : Gpio2(i, PD7, d)
    \/ \E i \in Objects, d \in Directions, p \in Priorities : Gpio3(i, PD7, d, p)

SpecialPinsSpec == Init /\ [][SpecialPinsNext]_vars

-----------------------------------------------------------------------------
(* Properties *)

InCtor == call.op \in {"Gpio2", "Gpio3"}

\* port of the running call's object
port == obj[cur].gpio \div 8

LogIdx == 1..Len(log)

IsAccess(e) == e.op \in {"read", "write"}
IsWriteTo(e, a) == e.op = "write" /\ e.addr = a

\* the address of a register of the running call's port
Reg(offset) == obj[cur].gpioBaseAddress + offset

ClockSetBefore(k) ==
    \E j \in 1..(k - 1) : IsWriteTo(log[j], RCGCGPIO) /\ port \in log[j].val

ReadySeenBefore(k) ==
    \E j \in 1..(k - 1) :
        log[j].op = "read" /\ log[j].addr = PRGPIO /\ port \in log[j].val

\* C1: during a construction the clock-gate bit of the pin's port is set
\* before any register of the port's block is read or written, and the ready
\* bit is read as 1 before any write to the port's block.
C1_BringUpOrder ==
    InCtor =>
        \A k \in LogIdx :
            /\ (IsAccess(log[k]) /\ log[k].addr \in PortBlock(port)) =>
                   (ClockSetBefore(k) /\ port \in regs[RCGCGPIO])
            /\ (log[k].op = "write" /\ log[k].addr \in PortBlock(port)) =>
                   ReadySeenBefore(k)

\* a construction has written its port's block
C1_Witness ==
    /\ InCtor
    /\ pc = "L74"
    /\ \E k \in LogIdx : IsWriteTo(log[k], Reg(GPIODEN_OFFSET))

\* C2: a set of a RW / W1C field changes no bit outside the field; gpioWrite
\* on pin p changes at most bit p of the port's data register, and writes
\* nothing else.
C2_FrameOfSet ==
    /\ (harness.op = "set" /\ harness.perm \in {RW, W1C}) =>
           harness.reg \ Mask(harness.startBit, harness.width)
               = harness.before \ Mask(harness.startBit, harness.width)
    /\ (call.op = "gpioWrite") =>
           \A k \in LogIdx :
               log[k].op = "write" =>
                   /\ log[k].addr = Reg(GPIODATA_OFFSET)
                   /\ k > 1
                   /\ log[k - 1] = Ev("read", Reg(GPIODATA_OFFSET), log[k - 1].val)
                   /\ log[k].val \ {obj[cur].gpioPin} = log[k - 1].val \ {obj[cur].gpioPin}
                   /\ regs[Reg(GPIODATA_OFFSET)] = log[k].val

\* gpioWrite has changed its pin's bit while another bit of the data register is 1
C2_Witness ==
    /\ call.op = "gpioWrite"
    /\ pc = "L129"
    /\ Len(log) = 2
    /\ log[2].val # log[1].val
    /\ log[2].val \ {obj[cur].gpioPin} # {}

\* C3: a value that fits the field, written to a RW / W1C field, is what a
\* get of the same field returns; after gpioWrite(v), v in {0, 1}, gpioRead
\* on the same object returns v.
C3_WriteThenRead ==
    /\ (/\ harness.op = "set"
        /\ harness.perm \in {RW, W1C}
        /\ harness.value \subseteq Mask(0, harness.width)) =>
           GetField(harness.reg, harness.startBit, harness.width) = harness.value
    /\ (call.op = "gpioWrite" /\ pc = "L129" /\ call.value \in {0, 1}) =>
           gpioReadValue(obj[cur]) = Bits(call.value)

\* gpioWrite(1) is about to return on a pin other than bit 0
C3_Witness ==
    /\ call.op = "gpioWrite"
    /\ pc = "L129"
    /\ call.value = 1
    /\ obj[cur].gpioPin # 0
    /\ Len(log) = 2

\* position of a configuration register in the order the specification gives:
\* direction, unlock (lock key, commit), pull-up, alternate function,
\* digital enable, analog mode
RankStated(a) ==
    CASE a = Reg(GPIODIR_OFFSET) -> 1
      [] a = Reg(GPIOLOCK_OFFSET) -> 2
      [] a = Reg(GPIOCR_OFFSET) -> 3
      [] a = Reg(GPIOPUR_OFFSET) -> 4
      [] a = Reg(GPIOAFSEl_OFFSET) -> 5
      [] a = Reg(GPIODEN_OFFSET) -> 6
      [] a = Reg(GPIOAMSEL_OFFSET) -> 7
      [] OTHER -> 0

\* position in the order of the code: unlock (lock key, commit) first, then
\* direction, pull-up, alternate function, digital enable, analog mode
RankCoded(a) ==
    CASE a = Reg(GPIOLOCK_OFFSET) -> 1
      [] a = Reg(GPIOCR_OFFSET) -> 2
      [] a = Reg(GPIODIR_OFFSET) -> 3
      [] a = Reg(GPIOPUR_OFFSET) -> 4
      [] a = Reg(GPIOAFSEl_OFFSET) -> 5
      [] a = Reg(GPIODEN_OFFSET) -> 6
      [] a = Reg(GPIOAMSEL_OFFSET) -> 7
      [] OTHER -> 0

ConfigWrites == {k \in LogIdx : log[k].op = "write" /\ RankCoded(log[k].addr) > 0}

-----------------------------------------------------------------------------

pin == obj[cur].gpioPin

\* the steps of the secondary sequence of the interrupt constructor
IsIrqStep(e) ==
    \/ e.op = "nvic"
    \/ /\ e.op = "write"
       /\ e.addr \in {Reg(GPIOIM_OFFSET), Reg(GPIOIS_OFFSET), Reg(GPIOIBE_OFFSET),
                      Reg(GPIOICR_OFFSET)}

\* the k-th step of the secondary sequence as the specification states it:
\* mask cleared, sense bit set, both-edges bit set, flag cleared, mask set,
\* controller call
StepStated(e, k) ==
    CASE k = 1 -> IsWriteTo(e, Reg(GPIOIM_OFFSET)) /\ pin \notin e.val
      [] k = 2 -> IsWriteTo(e, Reg(GPIOIS_OFFSET)) /\ pin \in e.val
      [] k = 3 -> IsWriteTo(e, Reg(GPIOIBE_OFFSET)) /\ pin \in e.val
      [] k = 4 -> IsWriteTo(e, Reg(GPIOICR_OFFSET)) /\ pin \in e.val
      [] k = 5 -> IsWriteTo(e, Reg(GPIOIM_OFFSET)) /\ pin \in e.val
      [] k = 6 -> e.op = "nvic"
      [] OTHER -> FALSE

\* the k-th step as the code performs it: the sense bit is cleared
StepCoded(e, k) ==
    CASE k = 1 -> IsWriteTo(e, Reg(GPIOIM_OFFSET)) /\ pin \notin e.val
      [] k = 2 -> IsWriteTo(e, Reg(GPIOIS_OFFSET)) /\ pin \notin e.val
      [] k = 3 -> IsWriteTo(e, Reg(GPIOIBE_OFFSET)) /\ pin \in e.val
      [] k = 4 -> IsWriteTo(e, Reg(GPIOICR_OFFSET)) /\ pin \in e.val
      [] k = 5 -> IsWriteTo(e, Reg(GPIOIM_OFFSET)) /\ pin \in e.val
      [] k = 6 -> e.op = "nvic"
      [] OTHER -> FALSE

IrqSteps == SelectSeq(log, IsIrqStep)

MaskedWhileSensing ==
    pc \in {"L88", "L89"} => pin \notin regs[Reg(GPIOIM_OFFSET)]

\* C5 as stated: the interrupt constructor clears the pin's mask bit, then
\* sets the sense and both-edges bits, then writes 1 to the clear register,
\* then sets the mask bit, then calls the controller; the mask bit is 0 while
\* the sensing registers are written.
C5_StatedSequence ==
    call.op = "Gpio3" =>
        /\ \A k \in 1..Len(IrqSteps) : StepStated(IrqSteps[k], k)
        /\ pc = "L101" => Len(IrqSteps) = 6
        /\ MaskedWhileSensing

\* C5, amended: the interrupt constructor clears the pin's mask bit, then
\* clears the sense bit (edge sensitive) and sets the both-edges bit, then
\* writes 1 to the clear register, then sets the mask bit, then calls the
\* controller; the mask bit is 0 while the sensing registers are written.
C5_CodedSequence ==
    call.op = "Gpio3" =>
        /\ \A k \in 1..Len(IrqSteps) : StepCoded(IrqSteps[k], k)
        /\ pc = "L101" => Len(IrqSteps) = 6
        /\ MaskedWhileSensing

\* an interrupt construction of PF4 as input at priority 3 has ended, on a
\* pin whose mask bit was 1 when the construction began
C5_Witness ==
    /\ call.op = "Gpio3"
    /\ pc = "L101"
    /\ obj[cur].gpio = PF4 /\ call.dir = input /\ call.prio = 3
    /\ \E k \in LogIdx :
           log[k].op = "read" /\ log[k].addr = Reg(GPIOIM_OFFSET) /\ pin \in log[k].val

\* the registers the base configuration of the running construction writes
BaseRegisters ==
    {Reg(GPIODIR_OFFSET), Reg(GPIOAFSEl_OFFSET), Reg(GPIODEN_OFFSET), Reg(GPIOAMSEL_OFFSET)}
        \cup (IF call.dir = input THEN {Reg(GPIOPUR_OFFSET)} ELSE {})
        \cup (IF obj[cur].gpio = PF0 THEN {Reg(GPIOLOCK_OFFSET), Reg(GPIOCR_OFFSET)} ELSE {})

\* C6: in the interrupt constructor no interrupt register is written and the
\* controller is not called before the clock enable, the ready poll and every
\* write of the base configuration have been done, and none of them follows.
C6_BaseBeforeIrq ==
    call.op = "Gpio3" =>
        \A k \in LogIdx :
            IsIrqStep(log[k]) =>
                /\ ClockSetBefore(k)
                /\ ReadySeenBefore(k)
                /\ \A a \in BaseRegisters : \E j \in 1..(k - 1) : IsWriteTo(log[j], a)
                /\ \A j \in (k + 1)..Len(log) :
                       ~(log[j].op = "write" /\ RankCoded(log[j].addr) > 0)

\* the interrupt constructor is about to call the controller for an input
C6_Witness ==
    /\ call.op = "Gpio3"
    /\ pc = "L99"
    /\ call.dir = input
    /\ Len(IrqSteps) = 5

BlockAccessed ==
    \E k \in LogIdx : IsAccess(log[k]) /\ log[k].addr \in PortBlock(port)

\* C7: while the ready bit of the port is 0 a construction stays at the poll
\* (or before it), does not return and has accessed no register of the port's
\* block, however often it has polled.
C7_NoTimeout ==
    (InCtor /\ port \notin regs[PRGPIO]) =>
        /\ pc \in {"L50", "L51"}
        /\ obj[cur].state = "constructing"
        /\ ~BlockAccessed

\* a construction has polled MaxPolls times and the port is still not ready
C7_Witness ==
    /\ InCtor
    /\ pc = "L51"
    /\ polls = MaxPolls
    /\ port \notin regs[PRGPIO]

\* C8: if the processor keeps executing and a clocked port eventually becomes
\* ready, every construction ends with its object constructed; outside the
\* poll a step of the running construction is always possible.
C8_Terminates ==
    /\ \A i \in Objects :
           (obj[i].state = "constructing") ~> (obj[i].state = "constructed")
    /\ [](InCtor /\ pc # "L51" => ENABLED <<Progress>>_vars)

\* every object has been constructed
C8_Witness == \A i \in Objects : obj[i].state = "constructed"

\* C9: when Gpio(pin, output) returns, the clock-gate bit of the port and the
\* direction and digital-enable bits of the pin are 1 and the analog-select
\* and alternate-function bits of the pin are 0.
C9_OutputConfigured ==
    (InCtor /\ pc = "L74" /\ call.dir = output) =>
        /\ port \in regs[RCGCGPIO]
        /\ pin \in regs[Reg(GPIODIR_OFFSET)]
        /\ pin \in regs[Reg(GPIODEN_OFFSET)]
        /\ pin \notin regs[Reg(GPIOAMSEL_OFFSET)]
        /\ pin \notin regs[Reg(GPIOAFSEl_OFFSET)]

\* Gpio(PA0, output) returns; the alternate function of PA0 was selected
\* when the construction began
C9_Witness ==
    /\ call.op = "Gpio2"
    /\ pc = "L74"
    /\ call.dir = output
    /\ obj[cur].gpio = PA0
    /\ \E k \in LogIdx :
           /\ log[k].op = "read"
           /\ log[k].addr = Reg(GPIOAFSEl_OFFSET)
           /\ pin \in log[k].val

NvicCalls == {k \in LogIdx : log[k].op = "nvic"}

\* C10: the interrupt constructor calls the controller once, as its last
\* step, with the caller's priority and with interrupt number 30 for a pin of
\* Port F and the port index 0..4 for a pin of Port A..E; the two-argument
\* constructor does not call it.
C10_ControllerCall ==
    /\ \A g \in GPIO_Port_Pins :
           InterruptNumber(g) = IF g >= 40 THEN 30 ELSE g \div 8
    /\ InCtor =>
           IF call.op = "Gpio3" /\ pc = "L101"
           THEN /\ NvicCalls = {Len(log)}
                /\ log[Len(log)].irq = (IF port = 5 THEN 30 ELSE port)
                /\ log[Len(log)].prio = call.prio
           ELSE NvicCalls = {}

\* the interrupt constructor of PF4 at priority 3 has called enable(30, 3)
C10_Witness ==
    /\ call.op = "Gpio3"
    /\ pc = "L101"
    /\ obj[cur].gpio = PF4
    /\ log[Len(log)] = NvicEv(30, 3)

-----------------------------------------------------------------------------

\* the step that writes the running call's word back to GPIOICR
ClearWriteBack ==
    /\ pc \in {"L90", "L116"}
    /\ phase = "write"
    /\ phase' = "read"

\* C11: the write to the clear register by interruptClear and by the interrupt
\* constructor clears the latched flag of the object's pin and changes no
\* other latched flag of the port and no other register, whatever flags are
\* pending.
C11_ClearsOnlyItsFlag ==
    [][ClearWriteBack =>
            /\ regs'[Reg(GPIORIS_OFFSET)] = regs[Reg(GPIORIS_OFFSET)] \ {pin}
            /\ \A a \in Addresses \ {Reg(GPIORIS_OFFSET)} : regs'[a] = regs[a]]_vars

\* interruptClear on PF4 has read the clear register and is about to write it
\* back while the flags of PF0 and PF4 are both latched
C11_Witness ==
    /\ call.op = "interruptClear"
    /\ pc = "L116"
    /\ phase = "write"
    /\ obj[cur].gpio = PF4
    /\ regs[Reg(GPIORIS_OFFSET)] = {0, 4}

-----------------------------------------------------------------------------

\* the running gpioWrite found the pin's bit already equal to its value
BitAlreadyWritten ==
    /\ call.op = "gpioWrite"
    /\ call.value \in {0, 1}
    /\ Len(log) = 2
    /\ (pin \in log[1].val) <=> (call.value = 1)

\* C12: a set repeated on its own result with the same value gives the same
\* register content; a gpioWrite(v) that follows a gpioWrite(v) on the same
\* pin writes back the content it read and leaves the data register as it was.
C12_Idempotent ==
    /\ (harness.op = "set" /\ harness.perm \in {RW, W1C}) =>
           SetField(harness.reg, harness.value, harness.startBit, harness.width)
               = harness.reg
    /\ (harness.op = "set" /\ harness.perm = WO) =>
           SetFieldWO(harness.value, harness.startBit) = harness.reg
    /\ BitAlreadyWritten =>
           /\ log[2].val = log[1].val
           /\ regs[Reg(GPIODATA_OFFSET)] = log[1].val

\* a second gpioWrite(1) on a pin has written the data register
C12_Witness ==
    /\ BitAlreadyWritten
    /\ pc = "L129"
    /\ call.value = 1
    /\ log[2].op = "write"

-----------------------------------------------------------------------------

\* C13: nothing keeps an interrupt handler from updating the data register
\* between the read and the write-back of a main-line gpioWrite; the
\* write-back stores what the main line read, changed in its own pin's bit
\* only, so a handler's update of another pin in between is discarded.
C13_WriteBackDiscards ==
    call.op = "gpioWrite" =>
        \A w \in LogIdx :
            log[w].op = "write" =>
                /\ log[1].op = "read"
                /\ log[w].addr = log[1].addr
                /\ log[w].val \ {pin} = log[1].val \ {pin}

\* a handler changed another pin's bit of the data register after the main
\* line had read it, and the main-line write-back has put the old bit back
C13_Witness ==
    /\ call.op = "gpioWrite"
    /\ pc = "L129"
    /\ Len(log) = 3
    /\ log[2].op = "isr"
    /\ log[2].val \ {pin} # log[1].val \ {pin}
    /\ log[3].op = "write"
    /\ regs[Reg(GPIODATA_OFFSET)] = log[3].val
    /\ regs[Reg(GPIODATA_OFFSET)] \ {pin} # log[2].val \ {pin}

-----------------------------------------------------------------------------

\* the read-only registers the driver addresses: PRGPIO and GPIORIS
ReadOnlyRegisters ==
    {PRGPIO} \cup {GPIO_Port_AHB_BASE + p * PortStride + GPIORIS_OFFSET : p \in Ports}

\* C14: a set with the read-only access class faults and leaves the register
\* as it was, a set with another class does not fault, and no Gpio operation
\* issues a set with the read-only class or writes a read-only register.
C14_ReadOnlySetFatal ==
    /\ (harness.op = "set" /\ harness.perm = RO) =>
           (harness.fault /\ harness.reg = harness.before)
    /\ (harness.op = "set" /\ harness.perm # RO) => ~harness.fault
    /\ pc # "fault"
    /\ \A k \in LogIdx : log[k].op = "write" => log[k].addr \notin ReadOnlyRegisters

\* a set of a non-zero value on a non-zero read-only word has been rejected
C14_Witness ==
    /\ harness.op = "set"
    /\ harness.perm = RO
    /\ harness.fault
    /\ harness.value # {}
    /\ harness.before = Bits(gpioKey)

\* C15: a get with the write-only access class faults instead of returning a
\* value, a get with another class does not fault; a set with the write-only
\* class stores value << startBit whatever the register held.
C15_WriteOnly ==
    /\ (harness.op = "get" /\ harness.perm = WO) => harness.fault
    /\ (harness.op = "get" /\ harness.perm # WO) =>
           /\ ~harness.fault
           /\ harness.ret = GetField(harness.before, harness.startBit, harness.width)
    /\ (harness.op = "set" /\ harness.perm = WO) =>
           /\ ~harness.fault
           /\ harness.reg = ShiftLeft(harness.value, harness.startBit)

\* a get of a write-only field of a word whose bits are all 1 has been rejected
C15_Witness ==
    /\ harness.op = "get"
    /\ harness.perm = WO
    /\ harness.fault
    /\ harness.before = Word

-----------------------------------------------------------------------------

\* PE6, PE7, PF5, PF6, PF7: enumerators without a pin (header, lines 90-91)
ReservedPins == {38, 39, 45, 46, 47}

\* the lowest interrupt priority (documentation of the interrupt constructor)
MaxPriority == 7

InvalidConfiguration ==
    /\ InCtor
    /\ \/ obj[cur].gpio \in ReservedPins
       \/ call.op = "Gpio3" /\ call.prio > MaxPriority

\* C16 as stated: a construction with a reserved pin or with a priority above
\* 7 accesses no register and does not call the interrupt controller.
C16_ConfigurationError ==
    InvalidConfiguration => log = <<>>

-----------------------------------------------------------------------------

\* the port whose block holds address a
PortOf(a) == (a - GPIO_Port_AHB_BASE) \div PortStride

\* C17 as stated: a register of a port's block is accessed only by an object
\* whose construction has seen the port ready, while the port's clock-gate
\* and ready bits are 1, the default constructor included.
C17_NoAccessUnclocked ==
    \A k \in LogIdx :
        (IsAccess(log[k]) /\ log[k].addr \notin {RCGCGPIO, PRGPIO}) =>
            /\ PortOf(log[k].addr) \in regs[RCGCGPIO]
            /\ PortOf(log[k].addr) \in regs[PRGPIO]
            /\ obj[cur].state # "default"

-----------------------------------------------------------------------------

\* 0x40058000 + 0x1000 * (g / 8)
StatedBase(g) == 1074102272 + 4096 * (g \div 8)

\* the register an operation on a constructed object accesses
TargetOf(op) ==
    IF op = "interruptClear" THEN StatedBase(obj[cur].gpio) + 1052
    ELSE StatedBase(obj[cur].gpio) + 1020

\* C19: for every pin g the constructor sets the base address
\* 0x40058000 + 0x1000 * (g / 8) and the pin selector g % 8, and the fields
\* keep these values; the clock-gate and ready bits of the construction are
\* bit g / 8; gpioWrite, gpioRead and interruptClear access only the data
\* register, respectively the interrupt-clear register, at that base, and
\* write only bit g % 8 of it.
C19_AddressOfPin ==
    /\ \A g \in GPIO_Port_Pins :
           /\ Constructing(g).gpioBaseAddress = StatedBase(g)
           /\ Constructing(g).gpioPin = g % 8
           /\ Constructing(g).gpioPin \in 0..7
    /\ \A i \in Objects :
           obj[i].state \in {"constructing", "constructed"} =>
               /\ obj[i].gpioBaseAddress = StatedBase(obj[i].gpio)
               /\ obj[i].gpioPin = obj[i].gpio % 8
    /\ InCtor =>
           /\ \A k \in LogIdx :
                  IsWriteTo(log[k], RCGCGPIO) =>
                      /\ k > 1
                      /\ log[k].val = log[k - 1].val \cup {obj[cur].gpio \div 8}
           /\ pc \notin {"L50", "L51"} =>
                  /\ obj[cur].gpio \div 8 \in regs[RCGCGPIO]
                  /\ obj[cur].gpio \div 8 \in regs[PRGPIO]
    /\ call.op \in {"gpioWrite", "gpioRead", "interruptClear"} =>
           /\ \A k \in LogIdx :
                  /\ log[k].addr = TargetOf(call.op)
                  /\ log[k].op = "write" =>
                         /\ k > 1
                         /\ log[k].val \ {obj[cur].gpio % 8}
                                = log[k - 1].val \ {obj[cur].gpio % 8}
           /\ (call.op = "gpioRead" /\ pc = "L138") =>
                  ret = (IF obj[cur].gpio % 8 \in log[1].val THEN {0} ELSE {})

\* gpioWrite(1) on the object of PF4 has set bit 4 of the register at
\* 0x4005D3FC
C19_Witness ==
    /\ call.op = "gpioWrite"
    /\ pc = "L129"
    /\ obj[cur].gpio = PF4
    /\ Len(log) = 2
    /\ log[2].addr = 1074123772
    /\ 4 \notin log[1].val
    /\ log[2].val = log[1].val \cup {4}

-----------------------------------------------------------------------------

WholeRegister == harness.startBit = 0 /\ harness.width = 32

\* C20: a set of the field with startBit 0 and width 32 leaves the register
\* equal to the value, whatever it held, and a get of that field returns the
\* register; the key write of the constructor leaves GPIOLOCK equal to
\* 0x4C4F434B.
C20_WholeRegister ==
    /\ (harness.op = "set" /\ WholeRegister /\ harness.perm # RO) =>
           harness.reg = harness.value
    /\ (harness.op = "get" /\ WholeRegister /\ harness.perm # WO) =>
           harness.ret = harness.before
    /\ InCtor =>
           \A k \in LogIdx :
               IsWriteTo(log[k], Reg(GPIOLOCK_OFFSET)) =>
                   /\ log[k].val = Bits(1280262987)
                   /\ regs[Reg(GPIOLOCK_OFFSET)] = log[k].val

\* the constructor of PF0 has written the key over the reset content 1 of
\* GPIOLOCK
C20_Witness ==
    /\ InCtor
    /\ pc = "L60"
    /\ Len(log) >= 2
    /\ IsWriteTo(log[Len(log)], Reg(GPIOLOCK_OFFSET))
    /\ log[Len(log) - 1].val = {0}
    /\ regs[Reg(GPIOLOCK_OFFSET)] = Bits(1280262987)

-----------------------------------------------------------------------------

\* the lock and commit registers of port p
LockOf(p) == GPIO_Port_AHB_BASE + p * PortStride + GPIOLOCK_OFFSET
CommitOf(p) == GPIO_Port_AHB_BASE + p * PortStride + GPIOCR_OFFSET

UnlockRegisters == {LockOf(p) : p \in Ports} \cup {CommitOf(p) : p \in Ports}

UnlockWrites == {k \in LogIdx : log[k].op = "write" /\ log[k].addr \in UnlockRegisters}

\* the running construction is past the unlock block (lines 57-61)
PastUnlock == InCtor /\ pc \notin {"L50", "L51", "L59", "L60"}

\* C21: a construction writes the lock and commit registers if and only if
\* its pin is PF0: for PF0 it writes the key 0x4C4F434B to the lock register
\* of Port F and then the commit register of Port F with bit 0 added to what
\* it read, both after the ready bit was read as 1; for any other pin, PD7
\* included, and in any other operation no lock or commit register is
\* written, and the lock and commit registers of the ports other than Port F
\* keep their reset content.
C21_UnlockOnlyPF0 ==
    /\ \A k \in UnlockWrites :
           /\ InCtor
           /\ obj[cur].gpio = 40
           /\ log[k].addr \in {LockOf(5), CommitOf(5)}
           /\ ReadySeenBefore(k)
    /\ (PastUnlock /\ obj[cur].gpio = 40) =>
           \E j \in UnlockWrites, k \in UnlockWrites :
               /\ UnlockWrites = {j, k}
               /\ j < k
               /\ log[j] = Ev("write", LockOf(5), Bits(1280262987))
               /\ log[k - 1].op = "read"
               /\ log[k - 1].addr = CommitOf(5)
               /\ log[k] = Ev("write", CommitOf(5), log[k - 1].val \cup {0})
    /\ (PastUnlock /\ obj[cur].gpio # 40) => UnlockWrites = {}
    /\ \A p \in Ports \ {5} :
           /\ regs[LockOf(p)] = ResetValue(LockOf(p))
           /\ regs[CommitOf(p)] = ResetValue(CommitOf(p))
    /\ (\A i \in Objects : obj[i].gpio # 40) =>
           /\ regs[LockOf(5)] = ResetValue(LockOf(5))
           /\ regs[CommitOf(5)] = ResetValue(CommitOf(5))

\* after a construction of PD7, which left the commit bit of PD7 at 0, a
\* construction of PF0 has written the key and set commit bit 0 of Port F
C21_Witness ==
    /\ \E i \in Objects : obj[i].state = "constructed" /\ obj[i].gpio = PD7
    /\ InCtor
    /\ pc = "L63"
    /\ obj[cur].gpio = PF0
    /\ Cardinality(UnlockWrites) = 2
    /\ regs[CommitOf(3)] = 0..6
    /\ regs[CommitOf(5)] = 0..7

-----------------------------------------------------------------------------

\* the per-pin configuration registers of the running call's port
ConfigurationRegisters ==
    {Reg(GPIODIR_OFFSET), Reg(GPIOPUR_OFFSET), Reg(GPIOAFSEl_OFFSET), Reg(GPIODEN_OFFSET),
     Reg(GPIOAMSEL_OFFSET), Reg(GPIOIM_OFFSET), Reg(GPIOIS_OFFSET), Reg(GPIOIBE_OFFSET)}

\* a step changes at most the running call's pin in the configuration
\* registers of its port and at most its port in the clock-gate register
SiblingsKept ==
    /\ \A a \in ConfigurationRegisters : regs'[a] \ {pin} = regs[a] \ {pin}
    /\ regs'[RCGCGPIO] \ {port} = regs[RCGCGPIO] \ {port}

\* C22: no step taken while a construction runs changes, in the direction,
\* pull-up, alternate-function, digital-enable, analog-select, interrupt-mask,
\* interrupt-sense and both-edges registers of its port, the bit of a pin
\* other than its own, or the clock-gate bit of another port; the call of a
\* constructor itself changes no register.  So a construction on a second
\* pin of a port leaves the configuration of the first as it was.
C22_SecondConstructionFrame ==
    [][/\ InCtor => SiblingsKept
       /\ (InCtor' /\ ~InCtor) => regs' = regs]_vars

\* after the interrupt construction of PF0 as an input, the construction of
\* PF4 as an output is about to return: the bits of PF0 are as they were
C22_Witness ==
    /\ \E i \in Objects : obj[i].state = "constructed" /\ obj[i].gpio = PF0
    /\ InCtor
    /\ pc = "L74"
    /\ obj[cur].gpio = PF4
    /\ call.dir = output
    /\ regs[Reg(GPIODIR_OFFSET)] = {4}
    /\ regs[Reg(GPIOPUR_OFFSET)] = {0}
    /\ regs[Reg(GPIODEN_OFFSET)] = {0, 4}
    /\ regs[Reg(GPIOIM_OFFSET)] = {0}
    /\ regs[Reg(GPIOIBE_OFFSET)] = {0}

-----------------------------------------------------------------------------

\* the pull-up select registers of all ports
PullUpRegisters == {GPIO_Port_AHB_BASE + p * PortStride + GPIOPUR_OFFSET : p \in Ports}

PullUpAccesses == {k \in LogIdx : IsAccess(log[k]) /\ log[k].addr \in PullUpRegisters}

\* the running construction is past the pull-up block (lines 65-68)
PastPullUp == InCtor /\ pc \notin {"L50", "L51", "L59", "L60", "L63", "L67"}

\* C23: a construction writes the pull-up select register if and only if its
\* direction is input: for input it reads the pull-up register of its port
\* and writes it back once with the pin's bit added, and the bit is 1 from
\* then on; for output it neither reads nor writes a pull-up register, and no
\* step taken while it runs changes the pull-up register of its port.
C23_PullUpIffInput ==
    /\ [](InCtor =>
             /\ \A k \in PullUpAccesses :
                    /\ call.dir = 0
                    /\ log[k].addr = Reg(GPIOPUR_OFFSET)
                    /\ log[k].op = "write" =>
                           /\ k - 1 \in PullUpAccesses
                           /\ log[k - 1].op = "read"
                           /\ log[k].val = log[k - 1].val \cup {pin}
             /\ (PastPullUp /\ call.dir = 0) =>
                    /\ Cardinality(PullUpAccesses) = 2
                    /\ pin \in regs[Reg(GPIOPUR_OFFSET)]
             /\ (PastPullUp /\ call.dir = 1) => PullUpAccesses = {})
    /\ [][(InCtor /\ call.dir = 1) =>
              regs'[Reg(GPIOPUR_OFFSET)] = regs[Reg(GPIOPUR_OFFSET)]]_vars

\* the construction of PF4 as an input has set pull-up bit 4 next to the
\* pull-up bit of PF0, which an earlier construction had set
C23_Witness ==
    /\ InCtor
    /\ pc = "L70"
    /\ obj[cur].gpio = PF4
    /\ call.dir = input
    /\ Cardinality(PullUpAccesses) = 2
    /\ regs[Reg(GPIOPUR_OFFSET)] = {0, 4}

-----------------------------------------------------------------------------

\* the running call is gpioWrite with a value other than 0 and 1
RejectedWrite == call.op = "gpioWrite" /\ call.value \notin {0, 1}

\* a step of the running call, its call and its return included
CallStep == pc' # pc

\* C24: gpioWrite with a value other than 0 or 1 accesses no register, and no
\* step of the call changes the data register or any other register;
\* gpioWrite with 0 or 1 makes exactly one bit-field set on the data register
\* of its port: one read and one write-back with the pin's bit replaced by
\* the value.
C24_InvalidValueIgnored ==
    /\ [](call.op = "gpioWrite" =>
             /\ call.value \notin {0, 1} => log = <<>> /\ pc \in {"L125", "L129"}
             /\ (call.value \in {0, 1} /\ pc = "L125") => log = <<>>
             /\ (call.value \in {0, 1} /\ pc = "L129") =>
                    /\ Len(log) = 2
                    /\ log[1] = Ev("read", Reg(GPIODATA_OFFSET), log[1].val)
                    /\ log[2] = Ev("write", Reg(GPIODATA_OFFSET),
                                   (log[1].val \ {pin})
                                       \cup (IF call.value = 1 THEN {pin} ELSE {})))
    /\ [][(CallStep /\ (RejectedWrite \/ RejectedWrite')) => regs' = regs]_vars

\* gpioWrite(2) is about to return on a pin whose data bit is 1 without
\* having accessed a register
C24_Witness ==
    /\ RejectedWrite
    /\ call.value = 2
    /\ pc = "L129"
    /\ log = <<>>
    /\ pin \in regs[Reg(GPIODATA_OFFSET)]

====
